---- MODULE Spec2Model ----
(***************************************************************************)
(* State-machine model of cloneWebsite (src/src/cloneWebsite.js): robots   *)
(* resolution, the serial page crawl with its page budget, the in-document *)
(* rewriting of asset references and anchors, and the asset phase that     *)
(* runs the downloads under pLimit(concurrency).                           *)
(*                                                                         *)
(* Strings whose characters the code inspects (pathnames, robots patterns, *)
(* file paths) are sequences of one-character strings.                     *)
(***************************************************************************)
EXTENDS Integers, Sequences, FiniteSets, TLC

\* ------------------------------------------------------------------ bounds
MaxPagesBound == 2
MaxConcurrency == 2
MaxAssetRefs == 2
MaxAnchors == 2
MaxPathLen == 2
MaxPatterns == 2
MaxLines == 4
MaxModelCalls == 3

\* ------------------------------------------------------- string helpers
StartsWith(s, p) == Len(p) <= Len(s) /\ SubSeq(s, 1, Len(p)) = p
EndsWith(s, p) == Len(p) <= Len(s) /\ SubSeq(s, Len(s) - Len(p) + 1, Len(s)) = p
SeqToSet(s) == {s[i] : i \in 1..Len(s)}

\* String.prototype.replace(/^\/+/, ""): drop the leading slashes.
RECURSIVE StripLeadingSlashes(_)
StripLeadingSlashes(s) ==
    IF s # <<>> /\ Head(s) = "/" THEN StripLeadingSlashes(Tail(s)) ELSE s

RECURSIVE StripTrailingSlashes(_)
StripTrailingSlashes(s) ==
    IF s # <<>> /\ s[Len(s)] = "/"
    THEN StripTrailingSlashes(SubSeq(s, 1, Len(s) - 1)) ELSE s

\* The last path component of s (s without trailing slashes).
LastComponent(s) ==
    LET t == StripTrailingSlashes(s)
        slashes == {i \in 1..Len(t) : t[i] = "/"}
        from == IF slashes = {} THEN 1
                ELSE (CHOOSE i \in slashes : \A j \in slashes : j <= i) + 1
    IN SubSeq(t, from, Len(t))

\* path.extname(p) # "": the last component has a "." that is not its
\* first character, and the component is not "..".
HasExtName(p) ==
    LET base == LastComponent(p)
        dots == {i \in 1..Len(base) : base[i] = "."}
    IN /\ dots # {}
       /\ (CHOOSE i \in dots : \A j \in dots : j <= i) > 1
       /\ base # <<".", ".">>

\* pathname.split("/").filter(Boolean): the non-empty segments of s.
RECURSIVE Segments(_, _)
Segments(s, cur) ==
    IF s = <<>> THEN (IF cur = <<>> THEN <<>> ELSE <<cur>>)
    ELSE IF Head(s) = "/"
         THEN (IF cur = <<>> THEN <<>> ELSE <<cur>>) \o Segments(Tail(s), <<>>)
         ELSE Segments(Tail(s), Append(cur, Head(s)))

\* Array.prototype.join("_")
RECURSIVE JoinUnderscore(_)
JoinUnderscore(segs) ==
    IF segs = <<>> THEN <<>>
    ELSE IF Len(segs) = 1 THEN segs[1]
         ELSE segs[1] \o <<"_">> \o JoinUnderscore(Tail(segs))

\* ------------------------------------------------------------------- URLs
Url(protocol, host, pathname, search) ==
    [protocol |-> protocol, host |-> host, pathname |-> pathname, search |-> search]

\* URL.origin: scheme and host (the model's URLs carry no port).
Origin(u) == <<u.protocol, u.host>>

RootHost == "example.test"
PageRoot == Url("https:", RootHost, <<"/">>, "")
PageA == Url("https:", RootHost, <<"/", "a">>, "")
PageASlash == Url("https:", RootHost, <<"/", "a", "/">>, "")
PageAQuery == Url("https:", RootHost, <<"/", "a">>, "?q")
PagePrivate == Url("https:", RootHost, <<"/", "p", "/", "x">>, "")
PageForeign == Url("https:", "cdn.test", <<"/">>, "")

AssetCss == Url("https:", RootHost, <<"/", "s", ".", "c", "s", "s">>, "")
AssetLogo == Url("https:", "cdn.test", <<"/", "l", "o", "g", "o", ".", "p", "n", "g">>, "")
AssetFtp == Url("ftp:", RootHost, <<"/", "f", ".", "b", "i", "n">>, "")

\* Two versions of the stylesheet: https://example.test/s.css?v=6261 and
\* https://example.test/s.css?v=6611.
AssetV6261 == Url("https:", RootHost, <<"/", "s", ".", "c", "s", "s">>, "?v=6261")
AssetV6611 == Url("https:", RootHost, <<"/", "s", ".", "c", "s", "s">>, "?v=6611")
VersionedAssets == {AssetV6261, AssetV6611}

\* What a reference attribute can resolve to besides a URL of the site:
\* Invalid is a value that new URL(value, currentUrl) rejects, Skippable an
\* href that isSkippableHref matches, DataUri a data: URI.
Invalid == Url("invalid", "", <<>>, "")
Skippable == Url("skippable", "", <<>>, "")
DataUri == Url("data:", "", <<>>, "")

\* An img whose src or data-src, or whose srcset entry, is a /_next/image URL
\* with a url= value that decodeURIComponent rejects.
ProxySrcMalformed == Url("next-image-src", "", <<>>, "")
ProxySrcsetMalformed == Url("next-image-srcset", "", <<>>, "")
ProxyRefs == {ProxySrcMalformed, ProxySrcsetMalformed}

AnchorRefs == {PageRoot, PageA, PageASlash, PageAQuery, PagePrivate, PageForeign,
               Invalid, Skippable}
AssetRefs == {AssetCss, AssetLogo, AssetFtp, Invalid, DataUri}
AssetUrls == {AssetCss, AssetLogo, AssetFtp} \cup VersionedAssets
RootUrls == {PageRoot, PagePrivate}
PageUrls == {PageRoot, PageA, PageASlash, PageAQuery, PagePrivate}

\* ----------------------------------------------------------------- robots
\* A robots.txt line, as the parser reads it: the directive the line starts
\* with and line.split(":")[1].trim().
Line(field, value) == [field |-> field, value |-> value]

DigitValue(c) ==
    CASE c = "0" -> 0 [] c = "1" -> 1 [] c = "2" -> 2 [] c = "3" -> 3 [] c = "4" -> 4
      [] c = "5" -> 5 [] c = "6" -> 6 [] c = "7" -> 7 [] c = "8" -> 8 [] c = "9" -> 9
      [] OTHER -> -1

RECURSIVE LeadingDigits(_, _, _)
LeadingDigits(s, acc, seen) ==
    IF s = <<>> \/ DigitValue(Head(s)) < 0
    THEN [value |-> acc, isNumber |-> seen]
    ELSE LeadingDigits(Tail(s), 10 * acc + DigitValue(Head(s)), TRUE)

\* parseInt(v) || 0
ParseIntOrZero(v) ==
    LET negative == v # <<>> /\ Head(v) = "-"
        body == IF v # <<>> /\ Head(v) \in {"-", "+"} THEN Tail(v) ELSE v
        r == LeadingDigits(body, 0, FALSE)
    IN IF ~r.isNumber THEN 0 ELSE IF negative THEN 0 - r.value ELSE r.value

EmptyPolicy == [disallowedPaths |-> <<>>, crawlDelay |-> 0]

RECURSIVE ParseLines(_, _, _, _)
ParseLines(lines, userAgent, active, policy) ==
    IF lines = <<>> THEN policy
    ELSE LET line == Head(lines) IN
         IF line.field = "User-agent"
         THEN ParseLines(Tail(lines), userAgent,
                         (line.value = <<"*">> \/ line.value = userAgent) /\ line.value # <<>>,
                         policy)
         ELSE IF active /\ line.field = "Disallow"
         THEN ParseLines(Tail(lines), userAgent, active,
                         IF line.value # <<>>
                         THEN [policy EXCEPT !.disallowedPaths = Append(@, line.value)]
                         ELSE policy)
         ELSE IF active /\ line.field = "Crawl-delay"
         THEN ParseLines(Tail(lines), userAgent, active,
                         [policy EXCEPT !.crawlDelay = ParseIntOrZero(line.value)])
         ELSE ParseLines(Tail(lines), userAgent, active, policy)

\* The parser with attribution on from the first line.
parseRobotsForAnyAgent(robotsText, userAgent) ==
    ParseLines(robotsText, userAgent, TRUE, EmptyPolicy)

\* Lines 7-25.
parseRobotsForUserAgent(robotsText, userAgent) ==
    ParseLines(robotsText, userAgent, FALSE, EmptyPolicy)

CrawlerName == <<"WebsiteCloner">>

\* The robots.txt files a site of the model serves.
RobotsStar ==
    << Line("User-agent", <<"*">>),
       Line("Disallow", <<"/", "p">>),
       Line("Crawl-delay", <<"1">>) >>
RobotsMixed ==
    << Line("User-agent", <<"Googlebot">>),
       Line("Disallow", <<"/", "a">>),
       Line("User-agent", CrawlerName),
       Line("Disallow", <<"/", "p", "/", "*">>),
       Line("Crawl-delay", <<"x">>) >>
SiteRobots == {RobotsStar, RobotsMixed}

\* The test without its wildcard branch.
DisallowedByWholeSegments(pathname, pattern) ==
    pathname = pattern \/ StartsWith(pathname, pattern \o <<"/">>)

\* Lines 49-52: the test of one pattern.
DisallowedBy(pathname, pattern) ==
    IF EndsWith(pattern, <<"*">>)
    THEN StartsWith(pathname, SubSeq(pattern, 1, Len(pattern) - 1))
    ELSE pathname = pattern \/ StartsWith(pathname, pattern \o <<"/">>)

isUrlAllowed(url, disallowedPaths) ==
    ~ \E i \in 1..Len(disallowedPaths) : DisallowedBy(url.pathname, disallowedPaths[i])

\* ---------------------------------------------------------- path mapping
\* crypto.createHash("md5").update(url.href).digest("hex").slice(0, 6), for
\* the asset URLs of the model.
Md5Hex6(url) ==
    CASE url = AssetCss -> <<"f", "0", "6", "5", "2", "8">>
      [] url = AssetLogo -> <<"9", "b", "0", "2", "7", "9">>
      [] url = AssetFtp -> <<"5", "3", "1", "c", "a", "9">>
      [] url = AssetV6261 -> <<"1", "7", "4", "e", "8", "6">>
      [] url = AssetV6611 -> <<"1", "7", "4", "e", "8", "6">>

AssetsDir == <<"a", "s", "s", "e", "t", "s", "/">>
IndexHtml == <<"i", "n", "d", "e", "x", ".", "h", "t", "m", "l">>

localizeAssetPath(url) ==
    LET urlPath == JoinUnderscore(Segments(url.pathname, <<>>))
        base == IF urlPath = <<>> THEN <<"a", "s", "s", "e", "t">> ELSE urlPath
    IN AssetsDir \o Md5Hex6(url) \o <<"-">> \o base

\* The file path relative to outputDir.
mapTargetUrlToFilePath(url) ==
    LET pathname ==
            IF EndsWith(url.pathname, <<"/">>) THEN url.pathname \o IndexHtml
            ELSE IF ~HasExtName(url.pathname) THEN url.pathname \o <<"/">> \o IndexHtml
            ELSE url.pathname
    IN StripLeadingSlashes(pathname)

\* ------------------------------------------------------------------ state
VARIABLES
    pc,                   \* the position of cloneWebsite
    maxPages, respectRobots, mirrorExternalAssets, concurrency,  \* options
    root,                 \* new URL(targetUrl)
    siteRobots,           \* the robots.txt the site serves
    site,                 \* the references the site's documents hold
    robotsRules,
    robotsFetch,          \* history: how the fetch of /robots.txt ended, "none" before it
    visitedPages, pageQueue, assetSet,
    currentUrl,
    html,                 \* the attribute values rewritten in the current document
    nAssetRefs, nAnchors, \* the elements of the current document handled so far
    files,                \* the output directory: file path -> content
    task,                 \* asset URL -> the state of its limit(...) task
    result,               \* the Clone Result, once returned
    thrown,               \* the operation whose error cloneWebsite propagated
    pushCount,            \* history: URL -> times pushed onto pageQueue
    fetchedPages,         \* history: page URLs a fetch was issued for
    fetchIssued,          \* history: asset URLs a fetch was issued for
    lastAnchor,           \* the same-origin anchor handled last, normalized
    sleptBefore,          \* history: page URLs whose fetch a crawl-delay sleep preceded
    targetUrl,            \* the argument of getMirrorWebsite
    mpc,                  \* the position of getMirrorWebsite
    existingClone,        \* what checkExistingClone returned
    existenceChecked,     \* history: checkExistingClone has looked at the disk
    mirrorResult,         \* what getMirrorWebsite returned or threw
    dirExists,            \* the output directory exists
    metadata,             \* the .clone-metadata.json of the output directory
    call,                 \* a function of the module called on its own: arguments and value
    apc,                  \* the position of startAgent
    conversationHistory,  \* the messages, each by its role and its step
    parsedResponse,       \* the model's latest response, parsed
    modelCalls            \* the chat completions requested so far

options == <<maxPages, respectRobots, mirrorExternalAssets, concurrency, root, siteRobots,
             site>>
crawl == <<visitedPages, pageQueue, currentUrl>>
document == <<html, nAssetRefs, nAnchors, lastAnchor>>
history == <<pushCount, fetchedPages, fetchIssued, sleptBefore>>
mirror == <<targetUrl, mpc, existingClone, existenceChecked, mirrorResult>>
disk == <<dirExists, metadata>>
agent == <<apc, conversationHistory, parsedResponse, modelCalls>>
vars == <<pc, options, robotsRules, robotsFetch, crawl, assetSet, document, files, task, result,
          thrown, history, mirror, disk, call, agent>>

rootOrigin == Origin(root)

\* A document, as far as the rewriting touches it: the asset URLs its img,
\* link and script elements referenced, the values written into their
\* attributes, and the values written into its same-origin anchors.
EmptyHtml == [refs |-> {}, assets |-> {}, links |-> {}]
NoResult == [returned |-> FALSE, success |-> FALSE, pagesCloned |-> 0,
             assetsDownloaded |-> 0, maxPagesReached |-> FALSE,
             robotsRespected |-> FALSE]

File(kind, src, content) == [kind |-> kind, src |-> src, content |-> content]
WriteFile(fs, path, file) ==
    [p \in DOMAIN fs \cup {path} |-> IF p = path THEN file ELSE fs[p]]
NoFiles == [p \in {} |-> File("stale", Invalid, EmptyHtml)]

\* What the output directory can hold before the clone starts: nothing, or
\* the files of an earlier clone.
InitialDirs ==
    { NoFiles,
      WriteFile(NoFiles, localizeAssetPath(AssetLogo), File("stale", Invalid, EmptyHtml)) }

\* The .clone-metadata.json of a directory: missing, not parseable as JSON, or
\* the record saveCloneMetadata wrote for a source URL.
NoMetadata == [present |-> FALSE, wellFormed |-> FALSE, sourceUrl |-> Invalid]
MalformedMetadata == [present |-> TRUE, wellFormed |-> FALSE, sourceUrl |-> Invalid]
Metadata(sourceUrl) == [present |-> TRUE, wellFormed |-> TRUE, sourceUrl |-> sourceUrl]

\* null, as checkExistingClone returns it.
NoClone == [found |-> FALSE, clonedAt |-> "", sourceUrl |-> Invalid, isLegacy |-> FALSE]

\* checkExistingClone reusing a clone whatever source it was made from.
checkExistingCloneAnySource(outDir, sourceUrl) ==
    IF ~outDir.exists THEN NoClone
    ELSE IF ~outDir.metadata.present
    THEN IF outDir.index
         THEN [found |-> TRUE, clonedAt |-> "Unknown (legacy clone)",
               sourceUrl |-> sourceUrl, isLegacy |-> TRUE]
         ELSE NoClone
    ELSE IF ~outDir.metadata.wellFormed THEN NoClone
    ELSE [found |-> TRUE, clonedAt |-> "recorded",
          sourceUrl |-> outDir.metadata.sourceUrl, isLegacy |-> FALSE]

\* checkExistingClone(outDir, sourceUrl), over what the directory holds; a
\* metadata file that readJson cannot parse throws into the catch.
checkExistingClone(outDir, sourceUrl) ==
    IF ~outDir.exists THEN NoClone
    ELSE IF ~outDir.metadata.present
    THEN IF outDir.index
         THEN [found |-> TRUE, clonedAt |-> "Unknown (legacy clone)",
               sourceUrl |-> sourceUrl, isLegacy |-> TRUE]
         ELSE NoClone
    ELSE IF ~outDir.metadata.wellFormed THEN NoClone
    ELSE IF outDir.metadata.sourceUrl = sourceUrl
    THEN [found |-> TRUE, clonedAt |-> "recorded",
          sourceUrl |-> outDir.metadata.sourceUrl, isLegacy |-> FALSE]
    ELSE NoClone

NoMirrorResult == [returned |-> FALSE, isExisting |-> FALSE, error |-> "none"]

\* No function is called on its own.
NoCall == [args |-> <<>>, returned |-> FALSE, value |-> FALSE]

\* What JSON.parse and its line-by-line fallback leave in parsedResponse when
\* neither finds a JSON object: undefined.
Unparsed == [parsed |-> FALSE, step |-> "undefined", tool_name |-> "none"]
Response(step, tool_name) == [parsed |-> TRUE, step |-> step, tool_name |-> tool_name]
Message(role, step) == [role |-> role, step |-> step]

\* startAgent is not running.
NoAgent ==
    /\ apc = "idle"
    /\ conversationHistory = <<>>
    /\ parsedResponse = Unparsed
    /\ modelCalls = 0

\* cloneWebsite's own state after lines 58-109.
InitClone(Choices) ==
    /\ pc = "start"
    /\ \E c \in Choices :
          /\ maxPages = c.maxPages
          /\ respectRobots = c.respectRobots
          /\ mirrorExternalAssets = c.mirrorExternalAssets
          /\ concurrency = c.concurrency
          /\ root = c.root
          /\ siteRobots = c.siteRobots
          /\ site = c.site
    /\ robotsRules = EmptyPolicy
    /\ robotsFetch = "none"
    /\ visitedPages = {}
    /\ pageQueue = <<root>>
    /\ assetSet = <<>>
    /\ currentUrl = Invalid
    /\ html = EmptyHtml
    /\ nAssetRefs = 0
    /\ nAnchors = 0
    /\ lastAnchor = Invalid
    /\ task = [a \in AssetUrls |-> "none"]
    /\ result = NoResult
    /\ thrown = "none"
    /\ pushCount = [u \in PageUrls |-> IF u = root THEN 1 ELSE 0]
    /\ fetchedPages = {}
    /\ fetchIssued = {}
    /\ sleptBefore = {}

\* cloneWebsite called on its own: no getMirrorWebsite around it.
DirectCall ==
    /\ targetUrl = root
    /\ mpc = "clone"
    /\ existingClone = NoClone
    /\ existenceChecked = FALSE
    /\ mirrorResult = NoMirrorResult
    /\ dirExists = (files # NoFiles)
    /\ metadata = NoMetadata

\* The state after lines 58-109, for every option and site of Choices.
InitOver(Choices) ==
    InitClone(Choices) /\ files \in InitialDirs /\ DirectCall /\ call = NoCall /\ NoAgent

\* Crawls of a site whose pages link to each other in every way and
\* reference one stylesheet.
CrawlChoices ==
    [maxPages : 0..MaxPagesBound, respectRobots : BOOLEAN,
     mirrorExternalAssets : {TRUE}, concurrency : {1},
     root : RootUrls, siteRobots : SiteRobots,
     site : {[anchors |-> AnchorRefs \ {PageRoot},
              assets |-> {AssetCss, Invalid, DataUri}]}]

\* Clones of a two-page site that references every asset of the model.
AssetChoices ==
    [maxPages : {MaxPagesBound}, respectRobots : BOOLEAN,
     mirrorExternalAssets : BOOLEAN, concurrency : 1..MaxConcurrency,
     root : {PageRoot}, siteRobots : {RobotsStar},
     site : {[anchors |-> {PageA, Skippable}, assets |-> AssetRefs]}]

\* Crawls that start at /a of a site whose pages also link to /a/: two URLs
\* of one page file.
AliasChoices ==
    [maxPages : {MaxPagesBound}, respectRobots : BOOLEAN,
     mirrorExternalAssets : {TRUE}, concurrency : {1},
     root : {PageA}, siteRobots : {RobotsStar},
     site : {[anchors |-> {PageASlash, PageRoot, Skippable},
              assets |-> {AssetCss, Invalid}]}]

\* What getMirrorWebsite can be given: a string new URL rejects, an ftp: URL,
\* and two pages of the site.
TargetFtp == Url("ftp:", RootHost, <<"/">>, "")
MirrorTargets == {Invalid, TargetFtp, PageRoot, PageA}

\* The cloneConfig of getMirrorWebsite, its 10 pages and 8 tasks brought down
\* to the bounds of the model; respectRobots is left to its default.
MirrorChoices ==
    [maxPages : {MaxPagesBound}, respectRobots : {TRUE},
     mirrorExternalAssets : {TRUE}, concurrency : {MaxConcurrency},
     root : {PageRoot, PageA}, siteRobots : {RobotsStar},
     site : {[anchors |-> {PageRoot, PageA}, assets |-> {AssetCss}]}]

\* A directory an earlier clone left with a top-level index.html.
LegacyDir == WriteFile(NoFiles, IndexHtml, File("stale", Invalid, EmptyHtml))

\* What ./cloned-websites/<domain> can be before getMirrorWebsite runs.
OutDirs ==
    {[exists |-> FALSE, files |-> NoFiles, metadata |-> NoMetadata]}
    \cup [exists : {TRUE}, files : {NoFiles, LegacyDir},
          metadata : {NoMetadata, MalformedMetadata, Metadata(PageRoot), Metadata(PageA)}]

\* getMirrorWebsite is called; root is the URL cloneWebsite parses when the
\* call gets that far.
InitMirror ==
    /\ InitClone(MirrorChoices)
    /\ targetUrl \in MirrorTargets
    /\ targetUrl \in {PageRoot, PageA} => root = targetUrl
    /\ mpc = "validate"
    /\ existingClone = NoClone
    /\ existenceChecked = FALSE
    /\ mirrorResult = NoMirrorResult
    /\ \E d \in OutDirs :
          files = d.files /\ dirExists = d.exists /\ metadata = d.metadata
    /\ call = NoCall
    /\ NoAgent

\* The strings of at most n characters a path or a Disallow value is made of.
PathChars == {"/", "p", "*"}
Strings(n) == UNION {[1..k -> PathChars] : k \in 0..n}

\* URL.pathname starts with a slash. The patterns: the empty one, paths with
\* and without a trailing slash, and a '*' alone, after a slash, after a path
\* and inside a path.
Pathnames == {<<"/">> \o s : s \in Strings(MaxPathLen)}
Patterns ==
    { <<>>, <<"*">>, <<"/">>, <<"/", "*">>, <<"/", "p">>, <<"/", "p", "*">>,
      <<"/", "p", "/">>, <<"/", "p", "/", "*">>, <<"/", "*", "p">> }
PatternLists == UNION {[1..k -> Patterns] : k \in 0..MaxPatterns}

\* A clone that is not run, for the functions called on their own.
IdleChoices ==
    [maxPages : {MaxPagesBound}, respectRobots : {TRUE},
     mirrorExternalAssets : {TRUE}, concurrency : {1},
     root : {PageRoot}, siteRobots : {RobotsStar},
     site : {[anchors |-> {}, assets |-> {}]}]
InitIdle == InitClone(IdleChoices) /\ files = NoFiles /\ DirectCall

\* isUrlAllowed(url, disallowedPaths) is called.
InitAllowed ==
    /\ InitIdle
    /\ NoAgent
    /\ \E pathname \in Pathnames, disallowedPaths \in PatternLists :
          call = [args |-> <<Url("https:", RootHost, pathname, ""), disallowedPaths>>,
                  returned |-> FALSE, value |-> FALSE]

\* The lines a robots.txt of at most MaxLines lines is made of: User-agent
\* lines for everyone, the crawler and another crawler, Disallow lines with
\* and without a value, Crawl-delay lines with and without a number, and a
\* line of another directive.
RobotsLines ==
    {Line("User-agent", v) : v \in {<<"*">>, CrawlerName, <<"Googlebot">>}}
    \cup {Line("Disallow", v) : v \in {<<>>, <<"/", "a">>, <<"/", "p">>}}
    \cup {Line("Crawl-delay", v) : v \in {<<"1">>, <<"2">>, <<"x">>}}
    \cup {Line("Sitemap", <<"s">>)}
RobotsTexts == UNION {[1..k -> RobotsLines] : k \in 0..MaxLines}

\* parseRobotsForUserAgent(robotsText, 'WebsiteCloner') is called.
InitRobots ==
    /\ InitIdle
    /\ NoAgent
    /\ \E robotsText \in RobotsTexts :
          call = [args |-> <<robotsText, CrawlerName>>, returned |-> FALSE, value |-> FALSE]

\* Clones of a two-page site whose images go through the next/image proxy
\* with malformed encodings.
ProxyChoices ==
    [maxPages : {MaxPagesBound}, respectRobots : BOOLEAN,
     mirrorExternalAssets : {TRUE}, concurrency : {1},
     root : {PageRoot}, siteRobots : {RobotsStar},
     site : {[anchors |-> {PageA, Skippable}, assets |-> {AssetCss} \cup ProxyRefs]}]

\* Clones of a two-page site that references two versions of its stylesheet.
VersionChoices ==
    [maxPages : {MaxPagesBound}, respectRobots : BOOLEAN,
     mirrorExternalAssets : {TRUE}, concurrency : 1..MaxConcurrency,
     root : {PageRoot}, siteRobots : {RobotsStar},
     site : {[anchors |-> {PageA, Skippable}, assets |-> VersionedAssets]}]

Init == InitOver(CrawlChoices)
InitAssets == InitOver(AssetChoices)
InitAlias == InitOver(AliasChoices)
InitProxy == InitOver(ProxyChoices)
InitVersions == InitOver(VersionChoices)

\* An error leaves cloneWebsite: the promise it returned rejects.
Throw(cause) == pc' = "thrown" /\ thrown' = cause

\* ------------------------------------------------------ robots, emptyDir
\* The outcomes of the fetch of /robots.txt: an ok response, or a failure (a
\* rejected fetch, the 10 s timeout, a status that is not ok).
RobotsOutcomes == {"ok", "failed"}

\* parseRobots parsing whatever body the response carries.
parseRobotsAnyResponse(outcome) == parseRobotsForUserAgent(siteRobots, CrawlerName)

\* Lines 27-44: the empty policy on a failure, the parsed file otherwise.
parseRobots(outcome) ==
    IF outcome = "ok"
    THEN parseRobotsForUserAgent(siteRobots, CrawlerName)
    ELSE EmptyPolicy

\* Lines 72-81: the robots resolution of a clone that respects robots.
ResolveRobots(outcome) ==
    /\ pc = "start"
    /\ respectRobots
    /\ robotsFetch' = outcome
    /\ robotsRules' = parseRobots(outcome)
    /\ pc' = "emptyDir"
    /\ UNCHANGED <<options, call, agent, mirror, disk, crawl, assetSet, document, files, task, result, thrown,
                   history>>

\* Lines 71-72: without respectRobots the policy stays empty.
SkipRobots ==
    /\ pc = "start"
    /\ ~respectRobots
    /\ pc' = "emptyDir"
    /\ UNCHANGED <<options, call, agent, mirror, disk, robotsRules, robotsFetch, crawl, assetSet, document,
                   files, task, result, thrown, history>>

\* Line 110: await fs.emptyDir(outputDir), outside any try: the directory is
\* created if it is missing and loses all it holds otherwise.
EmptyDir(ok) ==
    /\ pc = "emptyDir"
    /\ IF ok
       THEN /\ files' = NoFiles /\ metadata' = NoMetadata /\ dirExists' = TRUE
            /\ pc' = "loop" /\ thrown' = thrown
       ELSE UNCHANGED <<files, disk>> /\ Throw("emptyDir")
    /\ UNCHANGED <<options, call, agent, mirror, robotsRules, robotsFetch, crawl, assetSet, document, task,
                   result, history>>

\* ------------------------------------------------------------ crawl loop
InQueue(u) == \E i \in 1..Len(pageQueue) : pageQueue[i] = u

\* The loop condition without its page budget.
LoopConditionIgnoringBudget == pageQueue # <<>>

\* Line 114: the loop condition.
LoopCondition == pageQueue # <<>> /\ Cardinality(visitedPages) < maxPages

\* The dequeue-time robots test left out.
PageAllowedIgnoringRobots(u) == TRUE

\* Line 117: the robots test of a dequeued URL.
PageAllowed(u) == ~respectRobots \/ isUrlAllowed(u, robotsRules.disallowedPaths)

\* The sleep test without its visitedPages.size > 1.
SleepDueFromFirst(visited) == respectRobots /\ robotsRules.crawlDelay > 0

\* Line 123: a crawl-delay sleep precedes the fetch.
SleepDue(visited) ==
    respectRobots /\ robotsRules.crawlDelay > 0 /\ Cardinality(visited) > 1

\* Lines 237-240: [...assetSet].map(url => limit(...)) queues one task per asset.
QueuedTasks == [a \in AssetUrls |-> IF a \in SeqToSet(assetSet) THEN "pending" ELSE "none"]

\* Array.prototype.pop in place of shift: the newest URL leaves the queue.
Pop(queue) ==
    [removed |-> queue[Len(queue)], rest |-> SubSeq(queue, 1, Len(queue) - 1)]

\* Line 115: pageQueue.shift() removes and returns the oldest URL.
Shift(queue) == [removed |-> Head(queue), rest |-> Tail(queue)]

\* Lines 114-115 and, at loop exit, 237-240: test the loop condition, then
\* either shift the next URL off the queue or queue the asset tasks.
LoopTest ==
    /\ pc = "loop"
    /\ IF LoopCondition
       THEN /\ currentUrl' = Shift(pageQueue).removed
            /\ pageQueue' = Shift(pageQueue).rest
            /\ pc' = "dequeued"
            /\ task' = task
       ELSE /\ pc' = "assets"
            /\ task' = QueuedTasks
            /\ UNCHANGED <<currentUrl, pageQueue>>
    /\ UNCHANGED <<options, call, agent, mirror, disk, robotsRules, robotsFetch, visitedPages, assetSet, document, files,
                   result, thrown, history>>

\* Lines 116-126: skip a visited or disallowed URL, else mark it visited.
CheckSkip ==
    /\ pc = "dequeued"
    /\ IF currentUrl \in visitedPages \/ ~PageAllowed(currentUrl)
       THEN pc' = "loop" /\ visitedPages' = visitedPages
       ELSE /\ visitedPages' = visitedPages \cup {currentUrl}
            /\ pc' = IF SleepDue(visitedPages') THEN "sleep" ELSE "fetch"
    /\ UNCHANGED <<options, call, agent, mirror, disk, robotsRules, robotsFetch, pageQueue, currentUrl, assetSet, document,
                   files, task, result, thrown, history>>

\* Line 125: await sleep(crawlDelay * 1000).
Sleep ==
    /\ pc = "sleep"
    /\ pc' = "fetch"
    /\ sleptBefore' = sleptBefore \cup {currentUrl}
    /\ UNCHANGED <<options, call, agent, mirror, disk, robotsRules, robotsFetch, crawl, assetSet, document, files, task,
                   result, thrown, pushCount, fetchedPages, fetchIssued>>

FetchOutcomes == {"rejected", "nonHtml", "html"}

\* The page fetch with a rejected fetch aborting the clone.
FetchPageAborting(outcome) ==
    /\ pc = "fetch"
    /\ fetchedPages' = fetchedPages \cup {currentUrl}
    /\ IF outcome = "rejected"
       THEN Throw("fetch")
       ELSE /\ pc' = IF outcome = "html" THEN "body" ELSE "loop"
            /\ UNCHANGED thrown
    /\ UNCHANGED <<options, call, agent, mirror, disk, robotsRules, robotsFetch, crawl, assetSet, document, files, task,
                   result, pushCount, fetchIssued, sleptBefore>>

\* Lines 127-143: the page fetch; a rejected fetch and a response that is
\* not text/html both continue the loop.
FetchPage(outcome) ==
    /\ pc = "fetch"
    /\ fetchedPages' = fetchedPages \cup {currentUrl}
    /\ pc' = IF outcome = "html" THEN "body" ELSE "loop"
    /\ UNCHANGED <<options, call, agent, mirror, disk, robotsRules, robotsFetch, crawl, assetSet, document, files, task,
                   result, thrown, pushCount, fetchIssued, sleptBefore>>

\* Lines 144-145: await response.text(), outside any try, then cheerio.load.
ReadBody(ok) ==
    /\ pc = "body"
    /\ IF ok
       THEN /\ pc' = "rewriteAssets"
            /\ html' = EmptyHtml /\ nAssetRefs' = 0 /\ nAnchors' = 0
            /\ lastAnchor' = Invalid
            /\ thrown' = thrown
       ELSE Throw("readBody") /\ UNCHANGED document
    /\ UNCHANGED <<options, call, agent, mirror, disk, robotsRules, robotsFetch, crawl, assetSet, files, task, result, history>>

\* Array.prototype.push in place of Set.prototype.add: every reference adds.
PushAsset(set, u) == Append(set, u)

\* Set.prototype.add on the insertion-ordered asset set.
AddAsset(set, u) == IF u \in SeqToSet(set) THEN set ELSE Append(set, u)

\* Lines 165, 196, 205: the attribute is set to the local asset path.
RewrittenAsset(ref) ==
    [html EXCEPT !.refs = @ \cup {ref}, !.assets = @ \cup {localizeAssetPath(ref)}]

\* Lines 146-207: one img, link or script element. A data: URI is left alone;
\* new URL(value, currentUrl) is outside any try; the decode of a next/image
\* src or data-src is inside a try (152-162) whose catch leaves the element
\* as it is, the decode of a next/image srcset entry (179) is outside any.
RewriteAssetRef(ref) ==
    /\ pc = "rewriteAssets"
    /\ ref \in site.assets
    /\ nAssetRefs < MaxAssetRefs
    /\ nAssetRefs' = nAssetRefs + 1
    /\ lastAnchor' = lastAnchor
    /\ IF ref \in {DataUri, ProxySrcMalformed}
       THEN UNCHANGED <<pc, thrown, html, assetSet>>
       ELSE IF ref = ProxySrcsetMalformed
       THEN Throw("decodeSrcset") /\ UNCHANGED <<html, assetSet>>
       ELSE IF ref = Invalid
       THEN Throw("rewrite") /\ UNCHANGED <<html, assetSet>>
       ELSE /\ html' = RewrittenAsset(ref)
            /\ assetSet' = AddAsset(assetSet, ref)
            /\ UNCHANGED <<pc, thrown>>
    /\ UNCHANGED <<options, call, agent, mirror, disk, robotsRules, robotsFetch, crawl, nAnchors, files, task,
                   result, history>>

\* The img, link and script passes are over; the anchor pass (208) begins.
EndAssetRefs ==
    /\ pc = "rewriteAssets"
    /\ pc' = "rewriteAnchors"
    /\ UNCHANGED <<options, call, agent, mirror, disk, robotsRules, robotsFetch, crawl, assetSet, document, files, task,
                   result, thrown, history>>

\* Lines 215-216: absoluteUrl.search = ""; absoluteUrl.hash = "" (the URLs of
\* the model carry no fragment).
Normalized(u) == [u EXCEPT !.search = ""]

\* Lines 218-221.
PrettyPath(u) ==
    IF ~HasExtName(u.pathname) /\ ~EndsWith(u.pathname, <<"/">>)
    THEN u.pathname \o <<"/">> ELSE u.pathname

\* shouldAdd without its visitedPages.has test.
ShouldAddIgnoringVisited(u) ==
    /\ ~InQueue(u)
    /\ (~respectRobots \/ isUrlAllowed(u, robotsRules.disallowedPaths))

\* shouldAdd without its pageQueue.includes test.
ShouldAddIgnoringQueue(u) ==
    /\ u \notin visitedPages
    /\ (~respectRobots \/ isUrlAllowed(u, robotsRules.disallowedPaths))

\* Lines 223-225.
ShouldAdd(u) ==
    /\ u \notin visitedPages
    /\ ~InQueue(u)
    /\ (~respectRobots \/ isUrlAllowed(u, robotsRules.disallowedPaths))

\* Lines 208-231: one anchor element.
RewriteAnchor(ref) ==
    /\ pc = "rewriteAnchors"
    /\ ref \in site.anchors
    /\ nAnchors < MaxAnchors
    /\ nAnchors' = nAnchors + 1
    /\ IF ref = Skippable
       THEN UNCHANGED <<pc, thrown, html, pageQueue, pushCount, lastAnchor>>
       ELSE IF ref = Invalid
       THEN Throw("rewrite") /\ UNCHANGED <<html, pageQueue, pushCount, lastAnchor>>
       ELSE IF Origin(ref) # rootOrigin
       THEN UNCHANGED <<pc, thrown, html, pageQueue, pushCount, lastAnchor>>
       ELSE LET u == Normalized(ref) IN
            /\ html' = [html EXCEPT !.links = @ \cup {PrettyPath(u)}]
            /\ lastAnchor' = u
            /\ IF ShouldAdd(u)
               THEN /\ pageQueue' = Append(pageQueue, u)
                    /\ pushCount' = [pushCount EXCEPT ![u] = @ + 1]
               ELSE UNCHANGED <<pageQueue, pushCount>>
            /\ UNCHANGED <<pc, thrown>>
    /\ UNCHANGED <<options, call, agent, mirror, disk, robotsRules, robotsFetch, visitedPages, currentUrl,
                   assetSet, nAssetRefs, files, task, result, fetchedPages, fetchIssued,
                   sleptBefore>>

\* Lines 232-235: ensureDir and writeFile of the page, outside any try.
WritePage(ok) ==
    /\ pc = "rewriteAnchors"
    /\ IF ok
       THEN /\ files' = WriteFile(files, mapTargetUrlToFilePath(currentUrl),
                                  File("page", currentUrl, html))
            /\ pc' = "loop" /\ thrown' = thrown
       ELSE Throw("writePage") /\ files' = files
    /\ UNCHANGED <<options, call, agent, mirror, disk, robotsRules, robotsFetch, crawl, assetSet, document,
                   task, result, history>>

\* ------------------------------------------------------------ asset phase
InFlight == {"fetching", "body", "writing"}
Settled == {"written", "failed", "skipped"}

\* pLimit's activeCount: the tasks started and not settled.
ActiveCount == Cardinality({a \in AssetUrls : task[a] \in InFlight})

\* The tasks run without the limiter.
SlotAlwaysFree == TRUE

\* Line 70 and 240: limit(...) starts a queued task only below the cap.
SlotFree == ActiveCount < concurrency

HasPending == \E i \in 1..Len(assetSet) : task[assetSet[i]] = "pending"

\* pLimit starts its queued tasks in the order they were queued.
NextPending ==
    assetSet[CHOOSE i \in 1..Len(assetSet) :
                 /\ task[assetSet[i]] = "pending"
                 /\ \A j \in 1..(i - 1) : task[assetSet[j]] # "pending"]

\* Line 243.
IsHttp(u) == u.protocol \in {"http:", "https:"}

\* The mirrorExternalAssets test left out.
ExternalNeverSkipped(u) == FALSE

\* Line 246.
ExternalSkipped(u) == Origin(u) # rootOrigin /\ ~mirrorExternalAssets

\* The task without its try/catch: the failure rejects Promise.all.
AssetFailurePropagates(a) ==
    /\ task' = [task EXCEPT ![a] = "failed"]
    /\ Throw("asset")

\* Lines 265-267: the catch of one asset's task absorbs its failure.
AssetFailure(a) ==
    /\ task' = [task EXCEPT ![a] = "failed"]
    /\ UNCHANGED <<pc, thrown>>

\* Lines 240-254: a task starts, returns at once for an asset it does not
\* mirror, and issues its fetch otherwise.
StartAsset ==
    /\ pc = "assets"
    /\ HasPending
    /\ SlotFree
    /\ LET a == NextPending IN
       IF ~IsHttp(a) \/ ExternalSkipped(a)
       THEN task' = [task EXCEPT ![a] = "skipped"] /\ fetchIssued' = fetchIssued
       ELSE /\ task' = [task EXCEPT ![a] = "fetching"]
            /\ fetchIssued' = fetchIssued \cup {a}
    /\ UNCHANGED <<pc, options, call, agent, mirror, disk, robotsRules, robotsFetch, crawl, assetSet, document,
                   files, result, thrown, pushCount, fetchedPages, sleptBefore>>

AssetFetchOutcomes == {"ok", "notOk", "rejected"}

\* Lines 249-257: the fetch settles; a rejection (network error, timeout)
\* and a non-ok status both throw into the catch.
AssetFetched(a, outcome) ==
    /\ pc = "assets"
    /\ task[a] = "fetching"
    /\ IF outcome = "ok"
       THEN task' = [task EXCEPT ![a] = "body"] /\ UNCHANGED <<pc, thrown>>
       ELSE AssetFailure(a)
    /\ UNCHANGED <<options, call, agent, mirror, disk, robotsRules, robotsFetch, crawl, assetSet, document,
                   files, result, history>>

\* Line 258: await response.arrayBuffer().
AssetBodyRead(a, ok) ==
    /\ pc = "assets"
    /\ task[a] = "body"
    /\ IF ok
       THEN task' = [task EXCEPT ![a] = "writing"] /\ UNCHANGED <<pc, thrown>>
       ELSE AssetFailure(a)
    /\ UNCHANGED <<options, call, agent, mirror, disk, robotsRules, robotsFetch, crawl, assetSet, document,
                   files, result, history>>

\* Lines 259-264: ensureDir and writeFile of the asset.
AssetWritten(a, ok) ==
    /\ pc = "assets"
    /\ task[a] = "writing"
    /\ IF ok
       THEN /\ files' = WriteFile(files, localizeAssetPath(a), File("asset", a, EmptyHtml))
            /\ task' = [task EXCEPT ![a] = "written"]
            /\ UNCHANGED <<pc, thrown>>
       ELSE AssetFailure(a) /\ files' = files
    /\ UNCHANGED <<options, call, agent, mirror, disk, robotsRules, robotsFetch, crawl, assetSet, document,
                   result, history>>

\* Lines 272-282.
CloneResult ==
    [returned |-> TRUE,
     success |-> TRUE,
     pagesCloned |-> Cardinality(visitedPages),
     assetsDownloaded |-> Len(assetSet),
     maxPagesReached |-> Cardinality(visitedPages) >= maxPages,
     robotsRespected |-> respectRobots]

\* Lines 238 and 272-285: Promise.all resolves once every task has settled,
\* and the result is returned.
Return ==
    /\ pc = "assets"
    /\ \A a \in AssetUrls : task[a] \in Settled \cup {"none"}
    /\ result' = CloneResult
    /\ pc' = "done"
    /\ UNCHANGED <<options, call, agent, mirror, disk, robotsRules, robotsFetch, crawl, assetSet, document,
                   files, task, thrown, history>>

Next ==
    \/ \E outcome \in RobotsOutcomes : ResolveRobots(outcome)
    \/ SkipRobots
    \/ \E ok \in BOOLEAN : EmptyDir(ok)
    \/ LoopTest
    \/ CheckSkip
    \/ Sleep
    \/ \E outcome \in FetchOutcomes : FetchPage(outcome)
    \/ \E ok \in BOOLEAN : ReadBody(ok)
    \/ \E ref \in AssetRefs \cup ProxyRefs \cup VersionedAssets : RewriteAssetRef(ref)
    \/ EndAssetRefs
    \/ \E ref \in AnchorRefs : RewriteAnchor(ref)
    \/ \E ok \in BOOLEAN : WritePage(ok)
    \/ StartAsset
    \/ \E a \in AssetUrls, outcome \in AssetFetchOutcomes : AssetFetched(a, outcome)
    \/ \E a \in AssetUrls, ok \in BOOLEAN : AssetBodyRead(a, ok)
    \/ \E a \in AssetUrls, ok \in BOOLEAN : AssetWritten(a, ok)
    \/ Return

\* --------------------------------------------------------- getMirrorWebsite
\* The URL string parses whatever its protocol.
WellFormedTarget(u) == u # Invalid

\* index.js 19-22: new URL(targetUrl) accepts the string, and its protocol is
\* http: or https:.
ValidTarget(u) == u # Invalid /\ u.protocol \in {"http:", "https:"}

\* index.js 17-25: the validation, before anything else.
Validate ==
    /\ mpc = "validate"
    /\ IF ValidTarget(targetUrl)
       THEN mpc' = "check" /\ mirrorResult' = mirrorResult
       ELSE /\ mpc' = "rejected"
            /\ mirrorResult' = [NoMirrorResult EXCEPT !.error = "Invalid URL provided"]
    /\ UNCHANGED <<pc, options, call, agent, robotsRules, robotsFetch, crawl, assetSet, document, files, task,
                   result, thrown, history, disk, targetUrl, existingClone, existenceChecked>>

\* The directory as checkExistingClone's pathExists and readJson see it.
OutDir ==
    [exists |-> dirExists, index |-> IndexHtml \in DOMAIN files, metadata |-> metadata]

\* index.js 27-44: the existence check, and the return of the existing clone.
CheckExisting ==
    /\ mpc = "check"
    /\ existenceChecked' = TRUE
    /\ existingClone' = checkExistingClone(OutDir, targetUrl)
    /\ IF existingClone'.found
       THEN /\ mpc' = "returned"
            /\ mirrorResult' = [returned |-> TRUE, isExisting |-> TRUE, error |-> "none"]
       ELSE mpc' = "clone" /\ mirrorResult' = mirrorResult
    /\ UNCHANGED <<pc, options, call, agent, robotsRules, robotsFetch, crawl, assetSet, document, files, task,
                   result, thrown, history, disk, targetUrl>>

\* index.js 65: cloneWebsite(validatedUrl.href, cloneConfig) runs.
CloneStep == mpc = "clone" /\ Next

\* index.js 66-71 with saveCloneMetadata (part_000 43-63): the metadata is
\* written, a failure to write it is only logged, and the result returned.
SaveCloneMetadata(ok) ==
    /\ mpc = "clone"
    /\ pc = "done"
    /\ IF ok
       THEN metadata' = Metadata(targetUrl) /\ dirExists' = TRUE
       ELSE UNCHANGED disk
    /\ mpc' = "returned"
    /\ mirrorResult' = [returned |-> TRUE, isExisting |-> FALSE, error |-> "none"]
    /\ UNCHANGED <<pc, options, call, agent, robotsRules, robotsFetch, crawl, assetSet, document, files, task,
                   result, thrown, history, targetUrl, existingClone, existenceChecked>>

\* index.js 72-75: an error of cloneWebsite is thrown on, wrapped.
CloneFailed ==
    /\ mpc = "clone"
    /\ pc = "thrown"
    /\ mpc' = "rejected"
    /\ mirrorResult' = [NoMirrorResult EXCEPT !.error = "Website cloning failed"]
    /\ UNCHANGED <<pc, options, call, agent, robotsRules, robotsFetch, crawl, assetSet, document, files, task,
                   result, thrown, history, disk, targetUrl, existingClone, existenceChecked>>

NextMirror ==
    \/ Validate
    \/ CheckExisting
    \/ CloneStep
    \/ \E ok \in BOOLEAN : SaveCloneMetadata(ok)
    \/ CloneFailed

\* ------------------------------------------- functions called on their own
program == <<pc, options, robotsRules, robotsFetch, crawl, assetSet, document, files, task,
             result, thrown, history, mirror, disk, agent>>

\* Lines 46-54: the call returns.
CallIsUrlAllowed ==
    /\ ~call.returned
    /\ call' = [call EXCEPT !.returned = TRUE,
                            !.value = isUrlAllowed(call.args[1], call.args[2])]
    /\ UNCHANGED program

NextAllowed == CallIsUrlAllowed

\* Lines 7-25: the call returns.
CallParseRobots ==
    /\ ~call.returned
    /\ call' = [call EXCEPT !.returned = TRUE,
                            !.value = parseRobotsForUserAgent(call.args[1], call.args[2])]
    /\ UNCHANGED program

NextRobots == CallParseRobots

\* --------------------------------------------------------------- startAgent
\* index.js 90-93 and the names a TOOL step can carry.
AVAILABLE_TOOLS == {"runSystemCommand", "getMirrorWebsite"}
ToolNames == AVAILABLE_TOOLS \cup {"unknownTool"}

\* What the model can answer: text that is no JSON object, or an object with
\* any step of the format.
ModelResponses ==
    {Unparsed}
    \cup {Response(step, "none") : step \in {"START", "THINK", "OUTPUT", "OBSERVE"}}
    \cup {Response("TOOL", name) : name \in ToolNames}

Observe == Message("developer", "OBSERVE")

notAgent == <<pc, options, robotsRules, robotsFetch, crawl, assetSet, document, files, task,
              result, thrown, history, mirror, disk, call>>

\* index.js 141-151: the history holds the system prompt and the user request
\* when the loop begins.
InitAgent ==
    /\ InitIdle
    /\ call = NoCall
    /\ apc = "callModel"
    /\ conversationHistory = <<Message("system", "none"), Message("user", "none")>>
    /\ parsedResponse = Unparsed
    /\ modelCalls = 0

\* index.js 154-157: the chat completion rejects, outside any try.
ModelCallFails ==
    /\ apc = "callModel"
    /\ modelCalls < MaxModelCalls
    /\ modelCalls' = modelCalls + 1
    /\ apc' = "apiError"
    /\ UNCHANGED <<conversationHistory, parsedResponse, notAgent>>

\* index.js 159-213 and 238-241: the response is parsed and pushed, and its
\* step dispatched up to the await of a tool. parsedResponse.step of an
\* unparsed response is a TypeError, outside any try.
ModelResponds(response) ==
    /\ apc = "callModel"
    /\ modelCalls < MaxModelCalls
    /\ modelCalls' = modelCalls + 1
    /\ parsedResponse' = response
    /\ LET pushed == Append(conversationHistory, Message("assistant", response.step)) IN
       IF ~response.parsed
       THEN conversationHistory' = pushed /\ apc' = "typeError"
       ELSE IF response.step \in {"START", "THINK"}
       THEN conversationHistory' = pushed /\ apc' = "callModel"
       ELSE IF response.step = "TOOL"
       THEN IF response.tool_name \notin AVAILABLE_TOOLS
            THEN conversationHistory' = Append(pushed, Observe) /\ apc' = "callModel"
            ELSE conversationHistory' = pushed /\ apc' = "tool"
       ELSE IF response.step = "OUTPUT"
       THEN conversationHistory' = pushed /\ apc' = "done"
       ELSE conversationHistory' = pushed /\ apc' = "callModel"
    /\ UNCHANGED notAgent

\* index.js 214-236: the tool returns and its result is pushed, or it throws
\* and the catch pushes the error's message; the step is not OUTPUT, so the
\* loop goes on.
ToolSettles(ok) ==
    /\ apc = "tool"
    /\ conversationHistory' = Append(conversationHistory, Observe)
    /\ apc' = "callModel"
    /\ UNCHANGED <<parsedResponse, modelCalls, notAgent>>

NextAgent ==
    \/ ModelCallFails
    \/ \E response \in ModelResponses : ModelResponds(response)
    \/ \E ok \in BOOLEAN : ToolSettles(ok)

Spec == Init /\ [][Next]_vars
SpecAssets == InitAssets /\ [][Next]_vars
SpecAlias == InitAlias /\ [][Next]_vars
SpecProxy == InitProxy /\ [][Next]_vars
SpecVersions == InitVersions /\ [][Next]_vars
SpecMirror == InitMirror /\ [][NextMirror]_vars
SpecAllowed == InitAllowed /\ [][NextAllowed]_vars
SpecRobots == InitRobots /\ [][NextRobots]_vars
SpecAgent == InitAgent /\ [][NextAgent]_vars

\* Every network and filesystem operation eventually returns, and the event
\* loop runs whatever is ready: a step that can be taken is taken.
SpecFair == Init /\ [][Next]_vars /\ WF_vars(Next)

\* ----------------------------------------------------------------- claims
PageFiles == {p \in DOMAIN files : files[p].kind = "page"}
Written == {a \in AssetUrls : task[a] = "written"}
PushedFromLink(u) == pushCount[u] > (IF u = root THEN 1 ELSE 0)
Disallowed(u) == ~isUrlAllowed(u, robotsRules.disallowedPaths)

\* C1: at every point of the crawl the visited set holds at most maxPages
\* URLs, and no more than maxPages page URLs have been fetched.
C1_PageBudget ==
    /\ Cardinality(visitedPages) <= maxPages
    /\ Cardinality(fetchedPages) <= maxPages

\* The budget stopped the crawl while a URL was still queued.
C1_Witness ==
    /\ pc = "assets"
    /\ maxPages > 0
    /\ Cardinality(visitedPages) = maxPages
    /\ pageQueue # <<>>

\* C2: no URL is in the page queue and in the visited set at the same time.
C2_QueueVisitedDisjoint == \A u \in visitedPages : ~InQueue(u)

\* An anchor to a visited page was handled while other URLs were queued.
C2_Witness ==
    /\ pc = "rewriteAnchors"
    /\ lastAnchor \in visitedPages
    /\ pageQueue # <<>>

\* C3: every URL is pushed onto the page queue at most once in a crawl, the
\* seeding of the root URL included.
C3_PushedAtMostOnce == \A u \in PageUrls : pushCount[u] <= 1

\* Two anchors of one document named the same URL, which the first queued.
C3_Witness ==
    /\ pc = "rewriteAnchors"
    /\ nAnchors = 2
    /\ Cardinality(html.links) = 1
    /\ lastAnchor # Invalid
    /\ InQueue(lastAnchor)
    /\ pushCount[lastAnchor] = 1

\* C4: with respectRobots, no disallowed URL is marked visited or fetched
\* and none is pushed from a link; without it every dequeued URL is visited
\* and every same-origin anchor's URL is queued unless it is visited or
\* queued already.
C4_RobotsHonoured ==
    /\ respectRobots =>
          /\ \A u \in visitedPages \cup fetchedPages : ~Disallowed(u)
          /\ \A u \in PageUrls : PushedFromLink(u) => ~Disallowed(u)
    /\ ~respectRobots =>
          /\ robotsRules = EmptyPolicy
          /\ (currentUrl # Invalid /\ pc # "dequeued") => currentUrl \in visitedPages
          /\ (pc = "rewriteAnchors" /\ lastAnchor # Invalid) =>
                (lastAnchor \in visitedPages \/ InQueue(lastAnchor))

\* With respectRobots, an anchor to a disallowed URL was handled and the URL
\* stayed out of the queue.
C4_Witness ==
    /\ respectRobots
    /\ pc = "rewriteAnchors"
    /\ lastAnchor = PagePrivate
    /\ Disallowed(PagePrivate)
    /\ ~InQueue(PagePrivate)
    /\ PagePrivate \notin visitedPages

\* C5: the only error cloneWebsite propagates is the one of preparing the
\* output directory.
C5_OnlyEmptyDirPropagates == pc = "thrown" => thrown = "emptyDir"

\* C6: no asset failure leaves cloneWebsite; while the asset phase runs some
\* step of it can always be taken; and at return every asset of the set was
\* attempted and the result reports success.
C6_AssetFailuresAbsorbed ==
    /\ thrown # "asset"
    /\ pc = "assets" => ENABLED Next
    /\ pc = "assets" /\ HasPending /\ SlotFree => ENABLED StartAsset
    /\ pc = "done" =>
          /\ result.returned /\ result.success
          /\ \A i \in 1..Len(assetSet) : task[assetSet[i]] \in Settled

\* The clone returned with one asset failed and another written.
C6_Witness ==
    /\ pc = "done"
    /\ \E a, b \in AssetUrls : task[a] = "failed" /\ task[b] = "written"

\* C7: at return the result reports success, assetsDownloaded is the number
\* of assets downloaded and written, and no file is at a failed asset's path.
C7_AssetsDownloadedCountsSuccesses ==
    pc = "done" =>
       /\ result.success
       /\ result.assetsDownloaded = Cardinality(Written)
       /\ \A a \in AssetUrls :
             task[a] = "failed" => localizeAssetPath(a) \notin DOMAIN files

\* C8: at most concurrency downloads are in flight, a task still queued has
\* issued no fetch, and no task can start while every slot is taken.
C8_ConcurrencyCap ==
    /\ ActiveCount <= concurrency
    /\ \A a \in AssetUrls : task[a] = "pending" => a \notin fetchIssued
    /\ pc = "assets" /\ ActiveCount = concurrency => ~ENABLED StartAsset

\* Every slot is taken and a task waits in the queue.
C8_Witness ==
    /\ pc = "assets"
    /\ ActiveCount = concurrency
    /\ HasPending

\* C9: without mirrorExternalAssets no fetch is issued for a foreign-origin
\* asset and no file is at its local path once the directory was emptied;
\* every saved page holds the local path of every asset it referenced; and
\* a started same-origin HTTP(S) asset has its fetch issued.
C9_ExternalNotMirrored ==
    /\ ~mirrorExternalAssets =>
          \A a \in AssetUrls :
             Origin(a) # rootOrigin =>
                /\ a \notin fetchIssued
                /\ pc \notin {"start", "emptyDir", "thrown"} =>
                      localizeAssetPath(a) \notin DOMAIN files
    /\ \A p \in PageFiles :
          \A a \in files[p].content.refs : localizeAssetPath(a) \in files[p].content.assets
    /\ \A a \in AssetUrls :
          (IsHttp(a) /\ Origin(a) = rootOrigin /\ task[a] \notin {"none", "pending"}) =>
             (a \in fetchIssued /\ task[a] # "skipped")

\* Without mirrorExternalAssets the clone returned: a saved page references
\* the foreign logo by its local path, the logo was skipped, and the
\* same-origin stylesheet was written.
C9_Witness ==
    /\ ~mirrorExternalAssets
    /\ pc = "done"
    /\ task[AssetLogo] = "skipped"
    /\ task[AssetCss] = "written"
    /\ \E p \in PageFiles :
          /\ AssetLogo \in files[p].content.refs
          /\ localizeAssetPath(AssetLogo) \in files[p].content.assets

\* C10: at return pagesCloned is the number of page files in the output
\* directory.
C10_PagesClonedCountsFiles ==
    pc = "done" => result.pagesCloned = Cardinality(PageFiles)


\* C11: when the clone returns with URLs still queued, maxPagesReached is
\* true, no queued URL was fetched, and some saved page holds the link to
\* every queued URL that a link discovered; and maxPagesReached is false
\* whenever fewer than maxPages URLs were visited.
C11_BudgetStop ==
    pc = "done" =>
       /\ pageQueue # <<>> =>
             /\ result.maxPagesReached
             /\ \A i \in 1..Len(pageQueue) :
                   /\ pageQueue[i] \notin fetchedPages
                   /\ PushedFromLink(pageQueue[i]) =>
                         \E p \in PageFiles :
                            PrettyPath(pageQueue[i]) \in files[p].content.links
       /\ Cardinality(visitedPages) < maxPages => ~result.maxPagesReached


\* The positions of cloneWebsite inside the crawl loop (lines 114-236).
InLoop(p) ==
    p \in {"loop", "dequeued", "sleep", "fetch", "body", "rewriteAssets", "rewriteAnchors"}

\* The loop is left for the asset phase, at its condition, with the queue
\* empty or the budget used up.
ExitsAtCondition ==
    (InLoop(pc) /\ ~InLoop(pc')) =>
       /\ pc' = "assets"
       /\ pageQueue = <<>> \/ Cardinality(visitedPages) >= maxPages

\* C12: the crawl loop is only ever left at its condition, for the asset
\* phase, with the queue empty or maxPages URLs visited; and once the output
\* directory is prepared the clone eventually returns its result.
C12_LoopExits ==
    /\ [][ExitsAtCondition]_vars
    /\ (pc = "loop") ~> (pc = "done")

\* Once the output directory is prepared, cloneWebsite eventually returns or
\* rejects.
LoopTerminates == (pc = "loop") ~> (pc \in {"done", "thrown"})


\* The fetch of the current page ends without an HTML response to parse.
PageSkipped == pc = "fetch" /\ pc' # "body"

\* C13: when the fetch of a page fails or answers something other than HTML,
\* the loop goes on to its next iteration with the page still in the visited
\* set, and with the files, the queue, the asset set and the visited set as
\* they were.
C13_SkippedPage ==
    [][PageSkipped =>
          /\ pc' = "loop"
          /\ currentUrl \in visitedPages'
          /\ UNCHANGED <<files, pageQueue, assetSet, visitedPages, thrown>>]_vars

\* The second page of a crawl was skipped after the first was saved, and the
\* loop is at its condition again.
C13_Witness ==
    /\ pc = "loop"
    /\ currentUrl \in fetchedPages
    /\ Cardinality(visitedPages) = 2
    /\ PageFiles # {}
    /\ \A p \in PageFiles : files[p].src # currentUrl


\* C14: after a failed fetch of /robots.txt the policy is the empty one, which
\* is the policy of an empty robots file, and the clone has gone on to prepare
\* its output directory; and a clone with respectRobots false issues no fetch
\* of /robots.txt.
C14_RobotsFailureIsEmptyPolicy ==
    /\ robotsFetch = "failed" =>
          /\ robotsRules = EmptyPolicy
          /\ robotsRules = parseRobotsForUserAgent(<<>>, CrawlerName)
          /\ pc # "start"
          /\ thrown # "parseRobots"
    /\ ~respectRobots => robotsFetch = "none"

\* A clone whose robots fetch failed has saved a page the site's robots
\* file disallows.
C14_Witness ==
    /\ robotsFetch = "failed"
    /\ \E p \in PageFiles :
          ~isUrlAllowed(files[p].src, parseRobotsForUserAgent(siteRobots, CrawlerName).disallowedPaths)


\* cloneWebsite is past its crawl loop.
InAssetPhase == pc \in {"assets", "done"}

\* C15: the queue only changes by losing its head, which becomes the one
\* current page, or by gaining a URL at its tail; a page fetch is the fetch of
\* the current page; no asset fetch is issued before the crawl loop is over;
\* and the asset set does not change once the asset phase has begun.
C15_Sequencing ==
    /\ [](fetchIssued # {} => InAssetPhase)
    /\ [][/\ pageQueue' # pageQueue =>
                \/ /\ pageQueue # <<>>
                   /\ pageQueue' = Tail(pageQueue)
                   /\ currentUrl' = Head(pageQueue)
                \/ \E u \in PageUrls : pageQueue' = Append(pageQueue, u)
          /\ fetchedPages' # fetchedPages =>
                pc = "fetch" /\ fetchedPages' = fetchedPages \cup {currentUrl}
          /\ InAssetPhase => assetSet' = assetSet]_vars

\* An asset fetch has been issued after a crawl that took two URLs off a
\* queue which held more.
C15_Witness ==
    /\ pc = "assets"
    /\ fetchIssued # {}
    /\ Cardinality(visitedPages) = 2
    /\ pageQueue # <<>>


\* The asset URLs the saved pages reference.
DiscoveredOnSavedPages == UNION {files[p].content.refs : p \in PageFiles}

\* Line 243 and 246: the asset is one the asset phase downloads.
PassesMirrorPolicy(a) == IsHttp(a) /\ (Origin(a) = rootOrigin \/ mirrorExternalAssets)

\* C16: the asset set holds each URL once; a task that has started never
\* becomes pending again and a fetch is issued for an asset at most once; and
\* when the clone returns, the task of every asset URL referenced on a saved
\* page has settled, after a fetch if the URL is HTTP(S) and passes the
\* mirroring policy.
C16_AssetsHandledOnce ==
    /\ [](Len(assetSet) = Cardinality(SeqToSet(assetSet)))
    /\ [](pc = "done" =>
            \A a \in DiscoveredOnSavedPages :
               /\ a \in SeqToSet(assetSet)
               /\ task[a] \in Settled
               /\ PassesMirrorPolicy(a) => a \in fetchIssued)
    /\ [][\A a \in AssetUrls :
             /\ task[a] \notin {"none", "pending"} => task'[a] \notin {"none", "pending"}
             /\ a \in fetchIssued => ~(task[a] # "fetching" /\ task'[a] = "fetching")
             /\ a \in fetchIssued' \ fetchIssued => task[a] = "pending"]_vars

\* The clone returned after two saved pages referenced one asset, which was
\* fetched, and another asset was left out without a fetch.
C16_Witness ==
    /\ pc = "done"
    /\ \E a \in fetchIssued :
          Cardinality({p \in PageFiles : a \in files[p].content.refs}) = 2
    /\ \E b \in DiscoveredOnSavedPages : task[b] = "skipped"


\* The target URL is malformed or not an HTTP(S) URL.
InvalidTarget == targetUrl = Invalid \/ targetUrl.protocol \notin {"http:", "https:"}

\* C17: a target URL that does not parse, or whose protocol is neither http:
\* nor https:, makes getMirrorWebsite throw its invalid-URL error with no
\* existence check made, no robots or page or asset fetch issued, cloneWebsite
\* not entered, and the output directory as it was.
C17_InvalidTargetRejectedFirst ==
    /\ [](InvalidTarget /\ mpc # "validate" =>
             /\ mpc = "rejected"
             /\ mirrorResult.error = "Invalid URL provided"
             /\ ~mirrorResult.returned
             /\ ~existenceChecked
             /\ robotsFetch = "none" /\ fetchedPages = {} /\ fetchIssued = {}
             /\ pc = "start")
    /\ [][InvalidTarget => UNCHANGED <<files, disk>>]_vars

\* getMirrorWebsite has rejected an ftp: URL whose directory holds an earlier
\* clone of the site.
C17_Witness ==
    /\ mpc = "rejected"
    /\ targetUrl = TargetFtp
    /\ files = LegacyDir
    /\ metadata = Metadata(PageRoot)

\* What checkExistingClone returns for each state of the directory.
ExistenceCheckCases ==
    LET found == existingClone' IN
    /\ ~dirExists => ~found.found
    /\ ~metadata.present /\ IndexHtml \notin DOMAIN files => ~found.found
    /\ metadata.present /\ metadata.wellFormed /\ metadata.sourceUrl # targetUrl =>
          ~found.found
    /\ dirExists /\ ~metadata.present /\ IndexHtml \in DOMAIN files =>
          /\ found.found /\ found.isLegacy
          /\ found.clonedAt = "Unknown (legacy clone)"
    /\ metadata.present /\ metadata.wellFormed /\ metadata.sourceUrl = targetUrl =>
          /\ found.found /\ ~found.isLegacy
          /\ found.sourceUrl = targetUrl

\* C18: checkExistingClone returns null for a missing directory, for one with
\* neither metadata nor index.html and for metadata of another source URL, a
\* legacy record for index.html without metadata and a non-legacy record for
\* metadata of the requested URL; and once it has returned a record,
\* getMirrorWebsite returns the existing clone with cloneWebsite not entered,
\* nothing fetched and the directory as it was.
C18_ExistingClone ==
    /\ [][mpc = "check" => ExistenceCheckCases]_vars
    /\ [](existingClone.found =>
             /\ mpc = "returned"
             /\ mirrorResult.returned /\ mirrorResult.isExisting
             /\ pc = "start"
             /\ robotsFetch = "none" /\ fetchedPages = {} /\ fetchIssued = {})
    /\ [][existingClone'.found => UNCHANGED <<files, disk>>]_vars

\* getMirrorWebsite has returned the existing clone of a directory whose
\* metadata names the requested URL.
C18_Witness ==
    /\ mpc = "returned"
    /\ existingClone.found /\ ~existingClone.isLegacy
    /\ metadata = Metadata(targetUrl)
    /\ files = LegacyDir


\* The path and the patterns isUrlAllowed was called with.
CalledPath == call.args[1].pathname
CalledPatterns == call.args[2]

\* The pattern ends in '*' and the path starts with what precedes that '*'.
WildcardMatch(pathname, pattern) ==
    /\ pattern # <<>>
    /\ pattern[Len(pattern)] = "*"
    /\ Len(pathname) >= Len(pattern) - 1
    /\ \A k \in 1..(Len(pattern) - 1) : pathname[k] = pattern[k]

\* The path starts with the pattern followed by '/'.
SegmentMatch(pathname, pattern) ==
    /\ Len(pathname) > Len(pattern)
    /\ \A k \in 1..Len(pattern) : pathname[k] = pattern[k]
    /\ pathname[Len(pattern) + 1] = "/"

\* C19: isUrlAllowed returns false exactly when some pattern of the list
\* equals the path, or is followed by '/' at the start of the path, or ends in
\* '*' and is, less that '*', a prefix of the path; and so returns true for
\* every path when the list is empty.
C19_IsUrlAllowed ==
    call.returned =>
       /\ ~call.value <=>
             \E i \in 1..Len(CalledPatterns) :
                \/ CalledPath = CalledPatterns[i]
                \/ SegmentMatch(CalledPath, CalledPatterns[i])
                \/ WildcardMatch(CalledPath, CalledPatterns[i])
       /\ CalledPatterns = <<>> => call.value

\* isUrlAllowed has returned false for /pp against a list whose only match is
\* the wildcard pattern /p*.
C19_Witness ==
    /\ call.returned /\ ~call.value
    /\ CalledPath = <<"/", "p", "p">>
    /\ CalledPatterns = << <<"/", "p", "/">>, <<"/", "p", "*">> >>


\* The lines parseRobotsForUserAgent was called with.
CalledLines == call.args[1]

\* The most recent User-agent line before line i, 0 when there is none.
Governing(i) ==
    LET before == {j \in 1..(i - 1) : CalledLines[j].field = "User-agent"}
    IN IF before = {} THEN 0 ELSE CHOOSE j \in before : \A k \in before : k <= j

\* Line i is a Disallow or Crawl-delay line whose governing User-agent line
\* names '*' or the crawler.
Attributed(i) ==
    /\ CalledLines[i].field \in {"Disallow", "Crawl-delay"}
    /\ Governing(i) > 0
    /\ CalledLines[Governing(i)].value \in {<<"*">>, CrawlerName}

\* The attributed Disallow lines with a value, in their order.
AttributedPaths ==
    LET kept == SelectSeq([i \in 1..Len(CalledLines) |-> i],
                          LAMBDA i : /\ Attributed(i)
                                     /\ CalledLines[i].field = "Disallow"
                                     /\ CalledLines[i].value # <<>>)
    IN [k \in 1..Len(kept) |-> CalledLines[kept[k]].value]

\* The number a Crawl-delay value of RobotsLines stands for, 0 for the one
\* that is not a number.
DelayOf(v) == CASE v = <<"1">> -> 1 [] v = <<"2">> -> 2 [] OTHER -> 0

\* The value of the last attributed Crawl-delay line, 0 when there is none.
AttributedDelay ==
    LET delays == {i \in 1..Len(CalledLines) :
                      Attributed(i) /\ CalledLines[i].field = "Crawl-delay"}
    IN IF delays = {} THEN 0
       ELSE DelayOf(CalledLines[CHOOSE i \in delays : \A k \in delays : k <= i].value)

\* C20: the policy parseRobotsForUserAgent returns holds, in their order, the
\* non-empty values of the Disallow lines whose most recent preceding
\* User-agent line names '*' or the crawler, and nothing else; and its
\* crawlDelay is the value of the last such Crawl-delay line, 0 when that
\* value is not a number or there is no such line.
C20_ParseRobots ==
    call.returned =>
       /\ call.value.disallowedPaths = AttributedPaths
       /\ call.value.crawlDelay = AttributedDelay

\* The parser has returned for a file whose crawler group disallows /a and
\* sets a delay, and whose later group for another crawler does the same
\* with other values.
C20_Witness ==
    /\ call.returned
    /\ CalledLines = << Line("User-agent", CrawlerName), Line("Disallow", <<"/", "a">>),
                        Line("User-agent", <<"Googlebot">>), Line("Disallow", <<"/", "p">>) >>
    /\ call.value = [disallowedPaths |-> << <<"/", "a">> >>, crawlDelay |-> 0]


\* The crawl delay is in force.
DelayInForce == respectRobots /\ robotsRules.crawlDelay > 0

\* C21: the first page visited is the root; a crawl-delay sleep preceded the
\* fetch of a page exactly when robots are respected, the policy's delay is
\* positive and the page is not the first one visited; and without a delay in
\* force no sleep happens at all.
C21_CrawlDelay ==
    /\ visitedPages # {} => root \in visitedPages
    /\ \A u \in fetchedPages : u \in sleptBefore <=> (DelayInForce /\ u # root)
    /\ root \notin sleptBefore
    /\ ~DelayInForce => sleptBefore = {}

\* A crawl under a crawl delay has fetched its first page without a sleep and
\* its second page after one.
C21_Witness ==
    /\ DelayInForce
    /\ Cardinality(fetchedPages) = 2
    /\ root \in fetchedPages
    /\ \E u \in fetchedPages : u \in sleptBefore


\* C22: no malformed image-proxy encoding, in a src, a data-src or an srcset
\* entry, makes cloneWebsite fail.
C22_ProxyDecodeAbsorbed == thrown # "decodeSrcset"


\* The path ends in '/' unless its final segment has an extension.
DirectoryStyle(pathname) == HasExtName(pathname) \/ EndsWith(pathname, <<"/">>)

\* C23: every href of a same-origin anchor in a saved page is a query-free
\* directory-style path, and every URL a link has put on the queue is
\* query-free and directory-style.
C23_LinksNormalized ==
    /\ \A p \in PageFiles : \A l \in files[p].content.links : DirectoryStyle(l)
    /\ \A i \in 1..Len(pageQueue) :
          PushedFromLink(pageQueue[i]) =>
             pageQueue[i].search = "" /\ DirectoryStyle(pageQueue[i].pathname)


\* C24: two distinct URLs of the asset set have distinct local asset paths,
\* and so no two asset tasks write one file.
C24_AssetPathsDisjoint ==
    \A a, b \in SeqToSet(assetSet) :
       a # b => localizeAssetPath(a) # localizeAssetPath(b)


\* No step writes the page of one URL over the saved page of another.
NoPageOverwritten ==
    \A p \in PageFiles :
       (p \in DOMAIN files' /\ files'[p].kind = "page") => files'[p].src = files[p].src

\* C25: within one crawl a page file, once saved for a URL, is never written
\* again for another URL.
C25_NoPageOverwrite == [][NoPageOverwritten]_vars


\* Message i, a TOOL step of the model, is followed by one OBSERVE message
\* and no second one.
ObservedOnce(i) ==
    /\ i < Len(conversationHistory)
    /\ conversationHistory[i + 1] = Observe
    /\ i + 2 <= Len(conversationHistory) => conversationHistory[i + 2].role # "developer"

\* At every model call, and at the exit, each TOOL step of the history has
\* its one OBSERVE message.
ToolStepsObserved ==
    apc \in {"callModel", "done"} =>
       \A i \in 1..Len(conversationHistory) :
          conversationHistory[i] = Message("assistant", "TOOL") => ObservedOnce(i)

\* C26: every TOOL step has exactly one OBSERVE message after it in the
\* history when the model is called next, and the loop is left only when the
\* model's response is an OUTPUT step.
C26_AgentLoop ==
    /\ ToolStepsObserved
    /\ apc \notin {"callModel", "tool"} => parsedResponse = Response("OUTPUT", "none")

====
